---- MODULE Spec2Model ----
(***************************************************************************)
(* Model of the GCE backend session (gceAPI): construction, the route      *)
(* handlers, the secondary/alias range handlers and the operation poller,  *)
(* against a compute provider whose answers are nondeterministic.          *)
(***************************************************************************)
EXTENDS Integers, Sequences, FiniteSets, TLC

VARIABLES
    envNetworkProject,  \* value of GCE_NETWORK_PROJECT_ID ("" when unset)
    metaProject,        \* project reported by the metadata service
    constructed,        \* "new" | "ok" | "failed" | "crashed"
    api,                \* the gceAPI session object
    provInstance,       \* the provider's instance object
    provSubnetwork,     \* the provider's subnetwork object
    provRoutes,         \* the provider's routes: set of [project, route]
    last,               \* record of the most recent handler invocation
    poll,               \* activation record of pollOperationStatus
    merge,              \* one application of a combine function
    tasks               \* per session: a range handler between its calls

vars == <<envNetworkProject, metaProject, constructed, api, provInstance,
          provSubnetwork, provRoutes, last, poll, merge, tasks>>

-----------------------------------------------------------------------------
(* Values *)

Projects == {"p1", "p2"}

zoneScope == "zone"

globalScope == "global"

Scopes == {zoneScope, globalScope, "region"}

RoutePriority == 1000

MaxAttempts == 100

LogEvery == 5

RangeNames == {"r1", "r2"}

Cidrs == {"c1", "c2"}

\* subnets are strings, kept as sequences of characters so that the naming
\* rule can be computed character by character
Subnet1 == <<"1", "0", ".", "1", ".", "2", ".", "0", "/", "2", "4">>

Subnet2 == <<"1", "0", ".", "1", ".", "3", ".", "0", "/", "2", "4">>

Subnets == {Subnet1, Subnet2}

InstanceSelfLink == "instances/i1"

NetworkSelfLink == "networks/n1"

SubnetworkURL == <<"regions", "reg1", "subnetworks", "sub1">>

-----------------------------------------------------------------------------
(* Pure helpers *)

\* strings.NewReplacer table applied by formatRouteName
replacer(c) == IF c \in {".", "/"} THEN "-" ELSE c

ReplaceAll(s) == [k \in 1..Len(s) |-> replacer(s[k])]

\* variant: the subnet does not reach the name
formatRouteName_PrefixOnly(subnet) == <<"flannel-">>

formatRouteName(subnet) == <<"flannel-">> \o ReplaceAll(subnet)

\* path.Base of a slash-separated path held as its sequence of elements
pathBase(p) == IF Len(p) = 0 THEN "." ELSE p[Len(p)]

SeqRange(s) == {s[k] : k \in 1..Len(s)}

\* the provider's concurrency fingerprint is a hash of the guarded contents
FingerprintOf(ranges) == SeqRange(ranges)

\* all orderings of a finite set as sequences (Go map iteration order)
Orderings(S) ==
    {s \in [1..Cardinality(S) -> S] : \A a \in S : \E k \in DOMAIN s : s[k] = a}

\* the name-keyed map combineSecondaryRanges fills: later entries overwrite
RECURSIVE SecondaryMap(_, _, _)
SecondaryMap(ranges, k, m) ==
    IF k > Len(ranges) THEN m
    ELSE SecondaryMap(ranges, k + 1,
                      [n \in DOMAIN m \cup {ranges[k].RangeName} |->
                          IF n = ranges[k].RangeName THEN ranges[k] ELSE m[n]])

\* variant: the new entry is appended, nothing is looked up by name
combineSecondaryRanges_Append(ranges, newRange) == {ranges \o <<newRange>>}

\* the set of sequences combineSecondaryRanges may return: the values of the
\* map in any iteration order
combineSecondaryRanges(ranges, newRange) ==
    LET m0 == SecondaryMap(ranges, 1, <<>>)
        m  == [n \in DOMAIN m0 \cup {newRange.RangeName} |->
                  IF n = newRange.RangeName THEN newRange ELSE m0[n]]
    IN  {[k \in DOMAIN ks |-> m[ks[k]]] : ks \in Orderings(DOMAIN m)}

\* the name-keyed map combineAliasRanges fills
RECURSIVE AliasMap(_, _, _)
AliasMap(ranges, k, m) ==
    IF k > Len(ranges) THEN m
    ELSE AliasMap(ranges, k + 1,
                  [n \in DOMAIN m \cup {ranges[k].SubnetworkRangeName} |->
                      IF n = ranges[k].SubnetworkRangeName
                      THEN ranges[k] ELSE m[n]])

\* the set of sequences combineAliasRanges may return
combineAliasRanges(ranges, newRange) ==
    LET m0 == AliasMap(ranges, 1, <<>>)
        m  == [n \in DOMAIN m0 \cup {newRange.SubnetworkRangeName} |->
                  IF n = newRange.SubnetworkRangeName THEN newRange ELSE m0[n]]
    IN  {[k \in DOMAIN ks |-> m[ks[k]]] : ks \in Orderings(DOMAIN m)}

-----------------------------------------------------------------------------
(* Objects *)

Nic(aliases) ==
    [Name |-> "nic0", NetworkIP |-> "10.0.0.5", Subnetwork |-> SubnetworkURL,
     Fingerprint |-> FingerprintOf(aliases), AliasIpRanges |-> aliases]

Instance(nics) == [SelfLink |-> InstanceSelfLink, NetworkInterfaces |-> nics]

\* Go zero value of the session before construction
ZeroInstance == [SelfLink |-> "", NetworkInterfaces |-> <<>>]

ZeroAPI ==
    [networkProject |-> "", useIPNextHop |-> FALSE, instanceProject |-> "",
     instanceName |-> "", instanceZone |-> "", instanceRegion |-> "",
     gceNetwork |-> [SelfLink |-> ""], gceInstance |-> ZeroInstance]

NilOperation == [isNil |-> TRUE, Name |-> "", Status |-> "", HasError |-> FALSE]

Operation(name, status, hasError) ==
    [isNil |-> FALSE, Name |-> name, Status |-> status, HasError |-> hasError]

\* what the provider may hand back for an accepted mutating request
NewOperations(name) == {Operation(name, "PENDING", FALSE)}

NoRequest == [kind |-> "none"]

\* what a status check brought back; before the first check, nothing
NoAnswer == [fetch |-> "none", Status |-> "", HasError |-> FALSE]

\* no combine function applied
NoMerge ==
    [fn |-> "none", ranges |-> <<>>, newRange |-> <<>>, applied |-> FALSE,
     result |-> <<>>]

\* the sessions that share one owner object
Sessions == {"s1", "s2"}

\* a session that is not inside a range handler
IdleTask ==
    [pc |-> "idle", op |-> "none", cidr |-> "", name |-> "",
     fingerprint |-> {}, ranges |-> <<>>, err |-> "", sent |-> FALSE,
     accepted |-> FALSE]

NoCall ==
    [op |-> "none", args |-> <<>>, err |-> "", operation |-> NilOperation,
     calls |-> <<>>, request |-> NoRequest]

IdlePoll ==
    [pc |-> "idle", project |-> "", scope |-> "", o |-> NilOperation,
     i |-> 0, checks |-> 0, sleeps |-> 0, logs |-> 0, err |-> "",
     answer |-> NoAnswer]

MutatingCalls ==
    {"Routes.Insert", "Routes.Delete", "Subnetworks.Patch",
     "Instances.UpdateNetworkInterface"}

RECURSIVE CountIn(_, _)
CountIn(calls, S) ==
    IF Len(calls) = 0 THEN 0
    ELSE (IF calls[1] \in S THEN 1 ELSE 0) + CountIn(Tail(calls), S)

Mutations(call) == CountIn(call.calls, MutatingCalls)

-----------------------------------------------------------------------------
(* Initial state: nothing constructed, a provider holding one instance with *)
(* one interface, one subnetwork and no routes                              *)

Init ==
    /\ envNetworkProject \in Projects \cup {""}
    /\ metaProject = "p1"
    /\ constructed = "new"
    /\ api = ZeroAPI
    /\ provInstance = Instance(<<Nic(<<>>)>>)
    /\ provSubnetwork =
          [Name |-> "sub1", Fingerprint |-> FingerprintOf(<<>>),
           SecondaryIpRanges |-> <<>>]
    /\ provRoutes = {}
    /\ last = NoCall
    /\ poll = IdlePoll
    /\ merge = NoMerge
    /\ tasks = [s \in Sessions |-> IdleTask]

-----------------------------------------------------------------------------
(* newAPI *)

CtorStages ==
    <<"client", "compute service", "network metadata", "project",
      "instance name", "instance zone", "instance region", "network",
      "instance">>

\* variant: the override is never consulted
ResolveNetworkProject_IgnoreOverride(instanceProject, override) ==
    instanceProject

\* networkProject as newAPI resolves it
ResolveNetworkProject(instanceProject, override) ==
    IF override # "" THEN override ELSE instanceProject

\* useIPNextHop as newAPI computes it
ComputeUseIPNextHop(instanceProject, networkProject) ==
    instanceProject # networkProject

newAPI ==
    /\ constructed = "new"
    /\ \E failAt \in 0..Len(CtorStages) :
         LET instanceProject == metaProject
             networkProject  ==
                 ResolveNetworkProject(instanceProject, envNetworkProject)
             gi == provInstance
         IN  IF failAt > 0
             THEN /\ constructed' = "failed"
                  /\ api' = api
                  /\ last' = [NoCall EXCEPT !.op = "newAPI",
                                 !.err = "error getting " \o CtorStages[failAt]]
             ELSE IF Len(gi.NetworkInterfaces) = 0
             THEN /\ constructed' = "failed"
                  /\ api' = api
                  /\ last' = [NoCall EXCEPT !.op = "newAPI",
                      !.calls = <<"Networks.Get", "Instances.Get">>,
                      !.err = "expected at least 1 network interface but found zero"]
             ELSE /\ constructed' = "ok"
                  /\ api' = [networkProject  |-> networkProject,
                             instanceProject |-> instanceProject,
                             instanceZone    |-> "zone1",
                             instanceRegion  |-> "reg1",
                             instanceName    |-> "i1",
                             useIPNextHop    |->
                                 ComputeUseIPNextHop(instanceProject, networkProject),
                             gceNetwork      |-> [SelfLink |-> NetworkSelfLink],
                             gceInstance     |-> gi]
                  /\ last' = [NoCall EXCEPT !.op = "newAPI",
                      !.calls = <<"Networks.Get", "Instances.Get">>]
    /\ UNCHANGED <<merge, tasks, envNetworkProject, metaProject, provInstance,
                   provSubnetwork, provRoutes, poll>>

\* the session accepts a handler call: constructed, alive, and not blocked
\* inside the poller
Ready == constructed = "ok" /\ poll.pc # "loop"

-----------------------------------------------------------------------------
(* RouteManager *)

RouteOf(project, name) ==
    {e \in provRoutes : e.project = project /\ e.route.Name = name}

getRoute(subnet) ==
    /\ Ready
    /\ LET routeName == formatRouteName(subnet)
           found == RouteOf(api.networkProject, routeName)
       IN  \E fails \in BOOLEAN :
             last' = [NoCall EXCEPT !.op = "getRoute", !.args = <<subnet>>,
                        !.calls = <<"Routes.Get">>,
                        !.request = [kind |-> "routeName",
                                     project |-> api.networkProject,
                                     name |-> routeName],
                        !.err = IF fails THEN "provider error"
                                ELSE IF found = {} THEN "notFound" ELSE ""]
    /\ UNCHANGED <<merge, tasks, envNetworkProject, metaProject, constructed, api,
                   provInstance, provSubnetwork, provRoutes, poll>>

\* variant: a failed delete is issued once more
deleteRoute_RetryOnError(subnet) ==
    /\ Ready
    /\ LET routeName == formatRouteName(subnet)
           found == RouteOf(api.networkProject, routeName)
           call == [NoCall EXCEPT !.op = "deleteRoute", !.args = <<subnet>>,
                      !.calls = <<"Routes.Delete">>,
                      !.request = [kind |-> "routeName",
                                   project |-> api.networkProject,
                                   name |-> routeName]]
           again == [call EXCEPT !.calls = <<"Routes.Delete", "Routes.Delete">>]
       IN  \/ /\ found = {}
              /\ last' = [again EXCEPT !.err = "notFound"]
              /\ UNCHANGED provRoutes
           \/ /\ last' = [again EXCEPT !.err = "provider error"]
              /\ UNCHANGED provRoutes
           \/ /\ found # {}
              /\ \E o \in NewOperations("op-delete"), retried \in BOOLEAN :
                   last' = [(IF retried THEN again ELSE call)
                               EXCEPT !.operation = o]
              /\ provRoutes' = provRoutes \ found
    /\ UNCHANGED <<merge, tasks, envNetworkProject, metaProject, constructed, api,
                   provInstance, provSubnetwork, poll>>

deleteRoute(subnet) ==
    /\ Ready
    /\ LET routeName == formatRouteName(subnet)
           found == RouteOf(api.networkProject, routeName)
           call == [NoCall EXCEPT !.op = "deleteRoute", !.args = <<subnet>>,
                      !.calls = <<"Routes.Delete">>,
                      !.request = [kind |-> "routeName",
                                   project |-> api.networkProject,
                                   name |-> routeName]]
       IN  \/ /\ found = {}
              /\ last' = [call EXCEPT !.err = "notFound"]
              /\ UNCHANGED provRoutes
           \/ /\ last' = [call EXCEPT !.err = "provider error"]
              /\ UNCHANGED provRoutes
           \/ /\ found # {}
              /\ \E o \in NewOperations("op-delete") :
                   last' = [call EXCEPT !.operation = o]
              /\ provRoutes' = provRoutes \ found
    /\ UNCHANGED <<merge, tasks, envNetworkProject, metaProject, constructed, api,
                   provInstance, provSubnetwork, poll>>

\* variant: the instance reference is set on both branches
BuildRoute_InstanceAlways(subnet, useIP) ==
    [Name            |-> formatRouteName(subnet),
     DestRange       |-> subnet,
     Network         |-> api.gceNetwork.SelfLink,
     Priority        |-> RoutePriority,
     Tags            |-> <<>>,
     NextHopIp       |-> IF useIP
                         THEN api.gceInstance.NetworkInterfaces[1].NetworkIP
                         ELSE "",
     NextHopInstance |-> api.gceInstance.SelfLink]

\* the route insertRoute builds; NextHopIp is filled in only on the IP branch
BuildRoute(subnet, useIP) ==
    [Name            |-> formatRouteName(subnet),
     DestRange       |-> subnet,
     Network         |-> api.gceNetwork.SelfLink,
     Priority        |-> RoutePriority,
     Tags            |-> <<>>,
     NextHopIp       |-> IF useIP
                         THEN api.gceInstance.NetworkInterfaces[1].NetworkIP
                         ELSE "",
     NextHopInstance |-> IF useIP THEN "" ELSE api.gceInstance.SelfLink]

\* variant: the error does not say which instance
MissingInterfacesError_Anonymous(instance) ==
    "error expected instance to have network interfaces"

\* the error insertRoute returns for an instance without interfaces
MissingInterfacesError(instance) ==
    "error expected instance=" \o instance.SelfLink
        \o " to have network interfaces"

insertRoute(subnet) ==
    /\ Ready
    /\ LET call == [NoCall EXCEPT !.op = "insertRoute", !.args = <<subnet>>]
       IN  IF api.useIPNextHop /\ Len(api.gceInstance.NetworkInterfaces) = 0
           THEN /\ last' = [call EXCEPT
                              !.err = MissingInterfacesError(api.gceInstance)]
                /\ UNCHANGED provRoutes
           ELSE LET route == BuildRoute(subnet, api.useIPNextHop)
                    sent == [call EXCEPT !.calls = <<"Routes.Insert">>,
                               !.request = [kind |-> "route",
                                            project |-> api.networkProject,
                                            route |-> route]]
                IN  \/ /\ RouteOf(api.networkProject, route.Name) # {}
                       /\ last' = [sent EXCEPT !.err = "alreadyExists"]
                       /\ UNCHANGED provRoutes
                    \/ /\ last' = [sent EXCEPT !.err = "provider error"]
                       /\ UNCHANGED provRoutes
                    \/ /\ RouteOf(api.networkProject, route.Name) = {}
                       /\ \E o \in NewOperations("op-insert") :
                            last' = [sent EXCEPT !.operation = o]
                       /\ provRoutes' = provRoutes \cup
                            {[project |-> api.networkProject, route |-> route]}
    /\ UNCHANGED <<merge, tasks, envNetworkProject, metaProject, constructed, api,
                   provInstance, provSubnetwork, poll>>

-----------------------------------------------------------------------------
(* Panics: an index-out-of-range on NetworkInterfaces[0] unwinds the       *)
(* handler; the session object stays as it was when the panic was raised,  *)
(* and the process either dies or a caller recovers                        *)

PanicText == "panic: index out of range"

AfterPanic == {"ok", "crashed"}

-----------------------------------------------------------------------------
(* RangeMerger *)

\* variant: an entry of the same name counts, whatever its CIDR
HasSecondaryRange_NameOnly(subnetwork, rangeName, networkCidr) ==
    \E k \in 1..Len(subnetwork.SecondaryIpRanges) :
        subnetwork.SecondaryIpRanges[k].RangeName = rangeName

\* the early-return test of addSubnetSecondaryRange
HasSecondaryRange(subnetwork, rangeName, networkCidr) ==
    \E k \in 1..Len(subnetwork.SecondaryIpRanges) :
        /\ subnetwork.SecondaryIpRanges[k].RangeName = rangeName
        /\ subnetwork.SecondaryIpRanges[k].IpCidrRange = networkCidr

\* the provider takes a patch/update only with the current fingerprint
FingerprintAccepted(current, sent) == current = sent

addSubnetSecondaryRange(networkCidr, rangeName) ==
    /\ Ready
    /\ LET call == [NoCall EXCEPT !.op = "addSubnetSecondaryRange",
                      !.args = <<networkCidr, rangeName>>]
       IN  IF Len(api.gceInstance.NetworkInterfaces) = 0
           THEN /\ last' = [call EXCEPT !.err = PanicText]
                /\ constructed' \in AfterPanic
                /\ UNCHANGED provSubnetwork
           ELSE
           LET subnetworkName ==
                   pathBase(api.gceInstance.NetworkInterfaces[1].Subnetwork)
               subnetwork == provSubnetwork
               got == [call EXCEPT !.calls = <<"Subnetworks.Get">>]
           IN  \/ /\ last' = [got EXCEPT !.err = "provider error"]
                  /\ UNCHANGED <<constructed, provSubnetwork>>
               \/ /\ subnetworkName # provSubnetwork.Name
                  /\ last' = [got EXCEPT !.err = "notFound"]
                  /\ UNCHANGED <<constructed, provSubnetwork>>
               \/ /\ subnetworkName = provSubnetwork.Name
                  /\ HasSecondaryRange(subnetwork, rangeName, networkCidr)
                  /\ last' = got
                  /\ UNCHANGED <<constructed, provSubnetwork>>
               \/ /\ subnetworkName = provSubnetwork.Name
                  /\ ~HasSecondaryRange(subnetwork, rangeName, networkCidr)
                  /\ \E merged \in combineSecondaryRanges(
                                       subnetwork.SecondaryIpRanges,
                                       [IpCidrRange |-> networkCidr,
                                        RangeName |-> rangeName]) :
                       LET subnetworkUpdate ==
                               [Fingerprint |-> subnetwork.Fingerprint,
                                SecondaryIpRanges |-> merged]
                           sent == [got EXCEPT
                               !.calls = <<"Subnetworks.Get", "Subnetworks.Patch">>,
                               !.request = [kind |-> "subnetworkPatch",
                                            name |-> subnetwork.Name,
                                            update |-> subnetworkUpdate]]
                       IN  \/ /\ last' = [sent EXCEPT !.err = "provider error"]
                              /\ UNCHANGED provSubnetwork
                           \/ /\ ~FingerprintAccepted(provSubnetwork.Fingerprint,
                                                      subnetworkUpdate.Fingerprint)
                              /\ last' = [sent EXCEPT !.err = "conditionNotMet"]
                              /\ UNCHANGED provSubnetwork
                           \/ /\ FingerprintAccepted(provSubnetwork.Fingerprint,
                                                     subnetworkUpdate.Fingerprint)
                              /\ \E o \in NewOperations("op-patch") :
                                   last' = [sent EXCEPT !.operation = o]
                              /\ provSubnetwork' =
                                   [provSubnetwork EXCEPT
                                      !.SecondaryIpRanges = merged,
                                      !.Fingerprint = FingerprintOf(merged)]
                  /\ UNCHANGED constructed
    /\ UNCHANGED <<merge, tasks, envNetworkProject, metaProject, api, provInstance,
                   provRoutes, poll>>

\* variant: the result of the fetch is stored before the error is looked at
refreshInstance_StoreBeforeCheck ==
    {[err |-> "provider error", gceInstance |-> ZeroInstance],
     [err |-> "", gceInstance |-> provInstance]}

\* variant: the fetch is answered from the cached snapshot
refreshInstance_FromCache ==
    {[err |-> "provider error", gceInstance |-> api.gceInstance],
     [err |-> "", gceInstance |-> api.gceInstance]}

\* refreshInstance: the outcomes of the fetch, as (error, new cached snapshot)
refreshInstance ==
    {[err |-> "provider error", gceInstance |-> api.gceInstance],
     [err |-> "", gceInstance |-> provInstance]}

addAliasIPRange(subnetCidr, rangeName) ==
    /\ Ready
    /\ \E r \in refreshInstance :
         LET call == [NoCall EXCEPT !.op = "addAliasIPRange",
                        !.args = <<subnetCidr, rangeName>>,
                        !.calls = <<"Instances.Get">>]
             gi == r.gceInstance
         IN  IF r.err # ""
             THEN /\ api' = [api EXCEPT !.gceInstance = gi]
                  /\ last' = [call EXCEPT !.err = r.err]
                  /\ UNCHANGED <<constructed, provInstance>>
             ELSE IF Len(gi.NetworkInterfaces) = 0
             THEN /\ api' = [api EXCEPT !.gceInstance = gi]
                  /\ last' = [call EXCEPT !.err = PanicText]
                  /\ constructed' \in AfterPanic
                  /\ UNCHANGED provInstance
             ELSE
             /\ api' = [api EXCEPT !.gceInstance = gi]
             /\ UNCHANGED constructed
             /\ \E merged \in combineAliasRanges(
                                  gi.NetworkInterfaces[1].AliasIpRanges,
                                  [IpCidrRange |-> subnetCidr,
                                   SubnetworkRangeName |-> rangeName]) :
                  LET networkInterface ==
                          [Fingerprint |-> gi.NetworkInterfaces[1].Fingerprint,
                           AliasIpRanges |-> merged]
                      sent == [call EXCEPT
                          !.calls = <<"Instances.Get",
                                      "Instances.UpdateNetworkInterface">>,
                          !.request = [kind |-> "networkInterfaceUpdate",
                                       name |-> gi.NetworkInterfaces[1].Name,
                                       update |-> networkInterface]]
                  IN  \/ /\ last' = [sent EXCEPT !.err = "provider error"]
                         /\ UNCHANGED provInstance
                      \/ /\ ~FingerprintAccepted(
                                 provInstance.NetworkInterfaces[1].Fingerprint,
                                 networkInterface.Fingerprint)
                         /\ last' = [sent EXCEPT !.err = "conditionNotMet"]
                         /\ UNCHANGED provInstance
                      \/ /\ FingerprintAccepted(
                                 provInstance.NetworkInterfaces[1].Fingerprint,
                                 networkInterface.Fingerprint)
                         /\ \E o \in NewOperations("op-update") :
                              last' = [sent EXCEPT !.operation = o]
                         /\ provInstance' =
                              [provInstance EXCEPT
                                 !.NetworkInterfaces[1].AliasIpRanges = merged,
                                 !.NetworkInterfaces[1].Fingerprint =
                                     FingerprintOf(merged)]
    /\ UNCHANGED <<merge, tasks, envNetworkProject, metaProject, provSubnetwork,
                   provRoutes, poll>>

-----------------------------------------------------------------------------
(* The provider's instance changes outside the session: its interface is   *)
(* detached, or attached again without alias ranges                        *)

ProviderInstanceChanges ==
    /\ provInstance' \in {Instance(<<>>), Instance(<<Nic(<<>>)>>)}
    /\ provInstance' # provInstance
    /\ UNCHANGED <<merge, tasks, envNetworkProject, metaProject, constructed, api,
                   provSubnetwork, provRoutes, last, poll>>

-----------------------------------------------------------------------------
(* OperationPoller: pollOperationStatus, one action per entry, per loop    *)
(* iteration and for the exit of the loop                                  *)

\* operation handles a caller may pass
Handles ==
    {NilOperation} \cup
    {Operation("op1", st, e) : st \in {"PENDING", "RUNNING", "DONE"},
                               e \in BOOLEAN}

\* what one status check may bring back: the fetch fails, or an operation
FetchFailed == [fetch |-> "failed", Status |-> "", HasError |-> FALSE]

Answers ==
    {FetchFailed} \cup
    {[fetch |-> "ok", Status |-> st, HasError |-> e] :
        st \in {"PENDING", "RUNNING", "DONE"}, e \in BOOLEAN}

ErrUnsupportedScope == "Unsupported operation scope"

ErrFetch == "error fetching operation status"

ErrOperation == "error running operation"

ErrTimeout == "timeout waiting for operation to finish"

\* variant: only an absent handle returns at once
NothingToPoll_NilOnly(o) == o.isNil

\* the entry test: nothing to wait for
NothingToPoll(o) == o.isNil \/ o.Status = "DONE"

\* variant: the dispatch also takes the regional scope
SupportedScope_WithRegion(scope) == scope \in {globalScope, zoneScope, "region"}

\* the scopes the dispatch knows
SupportedScope(scope) == scope \in {globalScope, zoneScope}

pollOperationStatusEnter(project, scope, o) ==
    /\ Ready
    /\ poll' = IF NothingToPoll(o)
               THEN [IdlePoll EXCEPT !.pc = "returned", !.project = project,
                                     !.scope = scope, !.o = o]
               ELSE [IdlePoll EXCEPT !.pc = "loop", !.project = project,
                                     !.scope = scope, !.o = o]
    /\ UNCHANGED <<merge, tasks, envNetworkProject, metaProject, constructed, api,
                   provInstance, provSubnetwork, provRoutes, last>>

\* variant: the loop runs twice as long
LoopContinues_TwiceAsLong(i) == i < 2 * MaxAttempts

\* variant: one attempt too many
LoopContinues_OffByOne(i) == i <= MaxAttempts

\* the loop condition
LoopContinues(i) == i < MaxAttempts

\* variant: a failed fetch is slept on and tried again
pollIteration_RetryFetch(p, answer) ==
    IF ~SupportedScope(p.scope)
    THEN [p EXCEPT !.pc = "returned", !.err = ErrUnsupportedScope]
    ELSE
    LET asked == [p EXCEPT !.checks = @ + 1, !.answer = answer]
    IN  IF answer.fetch = "failed"
        THEN [asked EXCEPT !.sleeps = @ + 1, !.i = @ + 1]
        ELSE IF answer.HasError
        THEN [asked EXCEPT !.pc = "returned", !.err = ErrOperation]
        ELSE LET logged == [asked EXCEPT
                               !.logs = IF p.i % LogEvery = 0 THEN @ + 1 ELSE @]
             IN  IF answer.Status = "DONE"
                 THEN [logged EXCEPT !.pc = "returned"]
                 ELSE [logged EXCEPT !.sleeps = @ + 1, !.i = @ + 1]

\* variant: the sleep comes before the status test
pollIteration_SleepBeforeDone(p, answer) ==
    IF ~SupportedScope(p.scope)
    THEN [p EXCEPT !.pc = "returned", !.err = ErrUnsupportedScope]
    ELSE
    LET asked == [p EXCEPT !.checks = @ + 1, !.answer = answer]
    IN  IF answer.fetch = "failed"
        THEN [asked EXCEPT !.pc = "returned", !.err = ErrFetch]
        ELSE IF answer.HasError
        THEN [asked EXCEPT !.pc = "returned", !.err = ErrOperation]
        ELSE LET slept == [asked EXCEPT !.sleeps = @ + 1,
                              !.logs = IF p.i % LogEvery = 0 THEN @ + 1 ELSE @]
             IN  IF answer.Status = "DONE"
                 THEN [slept EXCEPT !.pc = "returned"]
                 ELSE [slept EXCEPT !.i = @ + 1]

\* variant: the status is tested before the error list
pollIteration_DoneBeforeError(p, answer) ==
    IF ~SupportedScope(p.scope)
    THEN [p EXCEPT !.pc = "returned", !.err = ErrUnsupportedScope]
    ELSE
    LET asked == [p EXCEPT !.checks = @ + 1, !.answer = answer]
    IN  IF answer.fetch = "failed"
        THEN [asked EXCEPT !.pc = "returned", !.err = ErrFetch]
        ELSE IF answer.Status = "DONE"
        THEN [asked EXCEPT !.pc = "returned"]
        ELSE IF answer.HasError
        THEN [asked EXCEPT !.pc = "returned", !.err = ErrOperation]
        ELSE [asked EXCEPT !.sleeps = @ + 1, !.i = @ + 1]

\* the result of one loop iteration on the answer of the provider; no status
\* check is issued for a scope the dispatch does not know
pollIteration(p, answer) ==
    IF ~SupportedScope(p.scope)
    THEN [p EXCEPT !.pc = "returned", !.err = ErrUnsupportedScope]
    ELSE
    LET asked == [p EXCEPT !.checks = @ + 1, !.answer = answer]
    IN  IF answer.fetch = "failed"
        THEN [asked EXCEPT !.pc = "returned", !.err = ErrFetch]
        ELSE IF answer.HasError
        THEN [asked EXCEPT !.pc = "returned", !.err = ErrOperation]
        ELSE LET logged == [asked EXCEPT
                               !.logs = IF p.i % LogEvery = 0 THEN @ + 1 ELSE @]
             IN  IF answer.Status = "DONE"
                 THEN [logged EXCEPT !.pc = "returned"]
                 ELSE [logged EXCEPT !.sleeps = @ + 1, !.i = @ + 1]

pollOperationStatusIterate ==
    /\ poll.pc = "loop"
    /\ LoopContinues(poll.i)
    /\ \E answer \in Answers : poll' = pollIteration(poll, answer)
    /\ UNCHANGED <<merge, tasks, envNetworkProject, metaProject, constructed, api,
                   provInstance, provSubnetwork, provRoutes, last>>

pollOperationStatusExhausted ==
    /\ poll.pc = "loop"
    /\ ~LoopContinues(poll.i)
    /\ poll' = [poll EXCEPT !.pc = "returned", !.err = ErrTimeout]
    /\ UNCHANGED <<merge, tasks, envNetworkProject, metaProject, constructed, api,
                   provInstance, provSubnetwork, provRoutes, last>>

-----------------------------------------------------------------------------
(* Specifications *)

GetRoute == \E subnet \in Subnets : getRoute(subnet)

InsertRoute == \E subnet \in Subnets : insertRoute(subnet)

DeleteRoute == \E subnet \in Subnets : deleteRoute(subnet)

AddSubnetSecondaryRange ==
    \E c \in Cidrs, n \in RangeNames : addSubnetSecondaryRange(c, n)

AddAliasIPRange == \E c \in Cidrs, n \in RangeNames : addAliasIPRange(c, n)

PollEnter ==
    \E project \in Projects, scope \in Scopes, o \in Handles :
        pollOperationStatusEnter(project, scope, o)

\* every session handler against the provider
Next ==
    \/ newAPI
    \/ GetRoute
    \/ InsertRoute
    \/ DeleteRoute
    \/ AddSubnetSecondaryRange
    \/ AddAliasIPRange
    \/ ProviderInstanceChanges

Spec == Init /\ [][Next]_vars

\* the route handlers, with the instance refresh that feeds them
NextRoute ==
    \/ newAPI
    \/ GetRoute
    \/ InsertRoute
    \/ DeleteRoute
    \/ AddAliasIPRange
    \/ ProviderInstanceChanges

SpecRoute == Init /\ [][NextRoute]_vars

\* the range handlers
NextRange ==
    \/ newAPI
    \/ AddSubnetSecondaryRange
    \/ AddAliasIPRange
    \/ ProviderInstanceChanges

SpecRange == Init /\ [][NextRange]_vars

\* the poller on a constructed session
NextPoll ==
    \/ newAPI
    \/ PollEnter
    \/ pollOperationStatusIterate
    \/ pollOperationStatusExhausted

SpecPoll == Init /\ [][NextPoll]_vars

\* the poller as sequential code: once inside the loop it keeps running
SpecPollFair ==
    /\ SpecPoll
    /\ WF_vars(pollOperationStatusIterate)
    /\ WF_vars(pollOperationStatusExhausted)

-----------------------------------------------------------------------------
(* Two sessions against the same subnetwork and the same instance: each    *)
(* range handler is split at its provider calls, so that the calls of the  *)
(* sessions interleave. tasks[s] holds the handler's locals between its    *)
(* two calls and, once it returned, its result; both sessions were built   *)
(* from the same metadata and read the same identity fields of api         *)

\* variant: the fingerprint is read again right before the request is sent
RequestFingerprint_Refetched(fetched, current) == current

\* the fingerprint the request carries: that of the object fetched earlier
RequestFingerprint(fetched, current) == fetched

TaskReady(s) == constructed = "ok" /\ tasks[s].pc = "idle"

\* addSubnetSecondaryRange up to its early return: the fetch of the
\* subnetwork and the search for the range
addSubnetSecondaryRangeFetch(s, networkCidr, rangeName) ==
    /\ TaskReady(s)
    /\ LET t == [IdleTask EXCEPT !.op = "addSubnetSecondaryRange",
                   !.cidr = networkCidr, !.name = rangeName]
       IN  IF Len(api.gceInstance.NetworkInterfaces) = 0
           THEN tasks' = [tasks EXCEPT ![s] = [t EXCEPT !.err = PanicText]]
           ELSE
           LET subnetworkName ==
                   pathBase(api.gceInstance.NetworkInterfaces[1].Subnetwork)
               subnetwork == provSubnetwork
           IN  \/ tasks' = [tasks EXCEPT ![s] =
                               [t EXCEPT !.err = "provider error"]]
               \/ /\ subnetworkName # provSubnetwork.Name
                  /\ tasks' = [tasks EXCEPT ![s] = [t EXCEPT !.err = "notFound"]]
               \/ /\ subnetworkName = provSubnetwork.Name
                  /\ HasSecondaryRange(subnetwork, rangeName, networkCidr)
                  /\ tasks' = [tasks EXCEPT ![s] = t]
               \/ /\ subnetworkName = provSubnetwork.Name
                  /\ ~HasSecondaryRange(subnetwork, rangeName, networkCidr)
                  /\ tasks' = [tasks EXCEPT ![s] =
                        [t EXCEPT !.pc = "fetched",
                                  !.fingerprint = subnetwork.Fingerprint,
                                  !.ranges = subnetwork.SecondaryIpRanges]]
    /\ UNCHANGED <<merge, envNetworkProject, metaProject, constructed, api,
                   provInstance, provSubnetwork, provRoutes, last, poll>>

\* the rest of addSubnetSecondaryRange: merge and patch
addSubnetSecondaryRangePatch(s) ==
    /\ constructed = "ok"
    /\ tasks[s].pc = "fetched"
    /\ tasks[s].op = "addSubnetSecondaryRange"
    /\ LET t == tasks[s]
           returned == [t EXCEPT !.pc = "idle", !.sent = TRUE,
                                 !.fingerprint = {}, !.ranges = <<>>]
       IN  \E merged \in combineSecondaryRanges(
                             t.ranges,
                             [IpCidrRange |-> t.cidr, RangeName |-> t.name]) :
             LET subnetworkUpdate ==
                     [Fingerprint |->
                          RequestFingerprint(t.fingerprint,
                                             provSubnetwork.Fingerprint),
                      SecondaryIpRanges |-> merged]
             IN  \/ /\ tasks' = [tasks EXCEPT ![s] =
                                  [returned EXCEPT !.err = "provider error"]]
                    /\ UNCHANGED provSubnetwork
                 \/ /\ ~FingerprintAccepted(provSubnetwork.Fingerprint,
                                            subnetworkUpdate.Fingerprint)
                    /\ tasks' = [tasks EXCEPT ![s] =
                                  [returned EXCEPT !.err = "conditionNotMet"]]
                    /\ UNCHANGED provSubnetwork
                 \/ /\ FingerprintAccepted(provSubnetwork.Fingerprint,
                                           subnetworkUpdate.Fingerprint)
                    /\ tasks' = [tasks EXCEPT ![s] =
                                  [returned EXCEPT !.accepted = TRUE]]
                    /\ provSubnetwork' =
                         [provSubnetwork EXCEPT
                            !.SecondaryIpRanges = merged,
                            !.Fingerprint = FingerprintOf(merged)]
    /\ UNCHANGED <<merge, envNetworkProject, metaProject, constructed, api,
                   provInstance, provRoutes, last, poll>>

\* addAliasIPRange up to the return of refreshInstance; the session's new
\* snapshot of interface 0 is kept in its task
addAliasIPRangeRefresh(s, subnetCidr, rangeName) ==
    /\ TaskReady(s)
    /\ LET t == [IdleTask EXCEPT !.op = "addAliasIPRange",
                   !.cidr = subnetCidr, !.name = rangeName]
           gi == provInstance
       IN  \/ tasks' = [tasks EXCEPT ![s] = [t EXCEPT !.err = "provider error"]]
           \/ /\ Len(gi.NetworkInterfaces) = 0
              /\ tasks' = [tasks EXCEPT ![s] = [t EXCEPT !.err = PanicText]]
           \/ /\ Len(gi.NetworkInterfaces) > 0
              /\ tasks' = [tasks EXCEPT ![s] =
                    [t EXCEPT !.pc = "fetched",
                              !.fingerprint =
                                  gi.NetworkInterfaces[1].Fingerprint,
                              !.ranges = gi.NetworkInterfaces[1].AliasIpRanges]]
    /\ UNCHANGED <<merge, envNetworkProject, metaProject, constructed, api,
                   provInstance, provSubnetwork, provRoutes, last, poll>>

\* the rest of addAliasIPRange: merge and update of the interface
addAliasIPRangeUpdate(s) ==
    /\ constructed = "ok"
    /\ tasks[s].pc = "fetched"
    /\ tasks[s].op = "addAliasIPRange"
    /\ LET t == tasks[s]
           current == provInstance.NetworkInterfaces[1].Fingerprint
           returned == [t EXCEPT !.pc = "idle", !.sent = TRUE,
                                 !.fingerprint = {}, !.ranges = <<>>]
       IN  \E merged \in combineAliasRanges(
                             t.ranges,
                             [IpCidrRange |-> t.cidr,
                              SubnetworkRangeName |-> t.name]) :
             LET networkInterface ==
                     [Fingerprint |-> RequestFingerprint(t.fingerprint, current),
                      AliasIpRanges |-> merged]
             IN  \/ /\ tasks' = [tasks EXCEPT ![s] =
                                  [returned EXCEPT !.err = "provider error"]]
                    /\ UNCHANGED provInstance
                 \/ /\ ~FingerprintAccepted(current,
                                            networkInterface.Fingerprint)
                    /\ tasks' = [tasks EXCEPT ![s] =
                                  [returned EXCEPT !.err = "conditionNotMet"]]
                    /\ UNCHANGED provInstance
                 \/ /\ FingerprintAccepted(current,
                                           networkInterface.Fingerprint)
                    /\ tasks' = [tasks EXCEPT ![s] =
                                  [returned EXCEPT !.accepted = TRUE]]
                    /\ provInstance' =
                         [provInstance EXCEPT
                            !.NetworkInterfaces[1].AliasIpRanges = merged,
                            !.NetworkInterfaces[1].Fingerprint =
                                FingerprintOf(merged)]
    /\ UNCHANGED <<merge, envNetworkProject, metaProject, constructed, api,
                   provSubnetwork, provRoutes, last, poll>>

\* the range each session registers: its own name and its own CIDR
Lease(s) ==
    IF s = "s1" THEN [cidr |-> "c1", name |-> "r1"]
                ELSE [cidr |-> "c2", name |-> "r2"]

SubnetFetch ==
    \E s \in Sessions :
        addSubnetSecondaryRangeFetch(s, Lease(s).cidr, Lease(s).name)

SubnetPatch == \E s \in Sessions : addSubnetSecondaryRangePatch(s)

AliasRefresh ==
    \E s \in Sessions :
        addAliasIPRangeRefresh(s, Lease(s).cidr, Lease(s).name)

AliasUpdate == \E s \in Sessions : addAliasIPRangeUpdate(s)

\* the range handlers of two sessions, interleaved at their provider calls
NextConc ==
    \/ newAPI
    \/ SubnetFetch
    \/ SubnetPatch
    \/ AliasRefresh
    \/ AliasUpdate

SpecConc == Init /\ [][NextConc]_vars

-----------------------------------------------------------------------------
(* The combine functions on their own: the arguments are drawn at the      *)
(* start, one action applies the function                                  *)

MaxRanges == 2

MergeNames == {"r1", "r2", "r3"}

SeqsUpTo(S, n) == UNION {[1..k -> S] : k \in 0..n}

SecondaryRanges ==
    {[RangeName |-> n, IpCidrRange |-> c] : n \in MergeNames, c \in Cidrs}

AliasRanges ==
    {[SubnetworkRangeName |-> n, IpCidrRange |-> c] :
        n \in MergeNames, c \in Cidrs}

InitMerge ==
    /\ envNetworkProject = ""
    /\ metaProject = "p1"
    /\ constructed = "new"
    /\ api = ZeroAPI
    /\ provInstance = Instance(<<Nic(<<>>)>>)
    /\ provSubnetwork =
          [Name |-> "sub1", Fingerprint |-> FingerprintOf(<<>>),
           SecondaryIpRanges |-> <<>>]
    /\ provRoutes = {}
    /\ last = NoCall
    /\ poll = IdlePoll
    /\ tasks = [s \in Sessions |-> IdleTask]
    /\ \/ \E rs \in SeqsUpTo(SecondaryRanges, MaxRanges),
             r \in SecondaryRanges :
             merge = [NoMerge EXCEPT !.fn = "secondary", !.ranges = rs,
                                     !.newRange = r]
       \/ \E rs \in SeqsUpTo(AliasRanges, MaxRanges), r \in AliasRanges :
             merge = [NoMerge EXCEPT !.fn = "alias", !.ranges = rs,
                                     !.newRange = r]

ApplyCombineSecondaryRanges ==
    /\ merge.fn = "secondary"
    /\ ~merge.applied
    /\ \E res \in combineSecondaryRanges(merge.ranges, merge.newRange) :
         merge' = [merge EXCEPT !.applied = TRUE, !.result = res]
    /\ UNCHANGED <<envNetworkProject, metaProject, constructed, api,
                   provInstance, provSubnetwork, provRoutes, last, poll,
                   tasks>>

ApplyCombineAliasRanges ==
    /\ merge.fn = "alias"
    /\ ~merge.applied
    /\ \E res \in combineAliasRanges(merge.ranges, merge.newRange) :
         merge' = [merge EXCEPT !.applied = TRUE, !.result = res]
    /\ UNCHANGED <<envNetworkProject, metaProject, constructed, api,
                   provInstance, provSubnetwork, provRoutes, last, poll,
                   tasks>>

NextMerge == ApplyCombineSecondaryRanges \/ ApplyCombineAliasRanges

SpecMerge == InitMerge /\ [][NextMerge]_vars

-----------------------------------------------------------------------------
(* Properties *)

\* an entry with this name and this CIDR is in the sequence
Holds(ranges, nameOf(_), name, cidr) ==
    \E r \in SeqRange(ranges) : nameOf(r) = name /\ r.IpCidrRange = cidr

SecondaryNameOf(r) == r.RangeName

AliasNameOf(r) == r.SubnetworkRangeName

\* C1: addAliasIPRange called a second time with the same (rangeName, CIDR),
\* the first update applied and the interface untouched in between, issues
\* no mutating call and, unless the refresh fails, returns success with a
\* nil operation.
C1_SecondAliasCallIsNoOp ==
    [][\A c \in Cidrs, n \in RangeNames :
          ( /\ last.op = "addAliasIPRange"
            /\ last.args = <<c, n>>
            /\ last.err = ""
            /\ Mutations(last) = 1
            /\ Len(provInstance.NetworkInterfaces) > 0
            /\ provInstance.NetworkInterfaces[1].AliasIpRanges =
                   last.request.update.AliasIpRanges
            /\ addAliasIPRange(c, n) )
          => /\ Mutations(last') = 0
             /\ last'.err # "provider error"
                   => last'.err = "" /\ last'.operation.isNil]_vars

\* C2: addSubnetSecondaryRange issues no patch and returns (nil, no error)
\* whenever the subnetwork it fetched already holds the same name with the
\* same CIDR, and issues exactly one patch when the name is absent or holds
\* another CIDR; so a second identical call after an applied first one
\* issues none.
C2_SubnetRangeIdempotent ==
    [][\A c \in Cidrs, n \in RangeNames :
          addSubnetSecondaryRange(c, n) =>
            LET present == Holds(provSubnetwork.SecondaryIpRanges,
                                 SecondaryNameOf, n, c)
                fetched == /\ last'.err # PanicText
                           /\ ~(last'.calls = <<"Subnetworks.Get">>
                                 /\ last'.err # "")
                firstApplied ==
                    /\ last.op = "addSubnetSecondaryRange"
                    /\ last.args = <<c, n>>
                    /\ last.err = ""
                    /\ Mutations(last) = 1
                    /\ provSubnetwork.SecondaryIpRanges =
                           last.request.update.SecondaryIpRanges
            IN  /\ fetched /\ present =>
                      /\ Mutations(last') = 0
                      /\ last'.err = ""
                      /\ last'.operation.isNil
                      /\ provSubnetwork' = provSubnetwork
                /\ fetched /\ ~present =>
                      /\ CountIn(last'.calls, {"Subnetworks.Patch"}) = 1
                      /\ Mutations(last') = 1
                /\ firstApplied => Mutations(last') = 0]_vars

\* a second identical call found the entry in place and returned at once
C2_Witness ==
    /\ last.op = "addSubnetSecondaryRange"
    /\ last.calls = <<"Subnetworks.Get">>
    /\ last.err = ""
    /\ Holds(provSubnetwork.SecondaryIpRanges, SecondaryNameOf,
             last.args[2], last.args[1])
    /\ Len(provSubnetwork.SecondaryIpRanges) = 2

\* C3: pollOperationStatus given a nil operation or one already DONE returns
\* success with zero status checks and zero sleeps.
C3_NothingToPollReturnsAtOnce ==
    (poll.pc = "returned" /\ (poll.o.isNil \/ poll.o.Status = "DONE"))
        => poll.err = "" /\ poll.checks = 0 /\ poll.sleeps = 0

C3_Witness ==
    /\ poll.pc = "returned"
    /\ ~poll.o.isNil
    /\ poll.o.Status = "DONE"
    /\ poll.err = ""
    /\ poll.checks = 0

\* C4 as stated: with a scope that is neither zone nor global the poller
\* fails with zero checks and zero sleeps, whatever handle it is given.
C4_UnknownScopeAlwaysFails ==
    (poll.pc = "returned" /\ poll.scope \notin {zoneScope, globalScope})
        => poll.err = ErrUnsupportedScope /\ poll.checks = 0 /\ poll.sleeps = 0

\* C4 amended: with a scope that is neither zone nor global and a handle that
\* is present and not DONE the poller fails with zero checks and zero
\* sleeps; with an absent or DONE handle it returns success, the scope
\* unread.
C4_UnknownScopeFailsForPending ==
    (poll.pc = "returned" /\ poll.scope \notin {zoneScope, globalScope})
        => /\ poll.checks = 0
           /\ poll.sleeps = 0
           /\ poll.err = IF poll.o.isNil \/ poll.o.Status = "DONE"
                         THEN "" ELSE ErrUnsupportedScope

C4_Witness ==
    /\ poll.pc = "returned"
    /\ poll.scope = "region"
    /\ ~poll.o.isNil
    /\ poll.o.Status = "PENDING"
    /\ poll.err = ErrUnsupportedScope
    /\ poll.checks = 0

\* the poller went into its loop with a scope it can dispatch
Polled ==
    /\ ~poll.o.isNil
    /\ poll.o.Status # "DONE"
    /\ poll.scope \in {zoneScope, globalScope}

\* C5: when the k-th status check is the first to report DONE, every earlier
\* one having been fetched without an error list, the poller returns
\* success after exactly k checks and k-1 sleeps, 1 <= k <= 100.
C5_DoneOnKthCheck ==
    /\ (poll.pc = "loop" /\ Polled) =>
           poll.checks = poll.i /\ poll.sleeps = poll.i
    /\ ( /\ poll.pc = "returned" /\ Polled
          /\ poll.answer.fetch = "ok"
          /\ ~poll.answer.HasError
          /\ poll.answer.Status = "DONE" )
        => /\ poll.err = ""
           /\ poll.checks = poll.i + 1
           /\ poll.sleeps = poll.checks - 1
           /\ poll.checks \in 1..100

C5_Witness ==
    /\ poll.pc = "returned"
    /\ Polled
    /\ poll.answer.Status = "DONE"
    /\ ~poll.answer.HasError
    /\ poll.err = ""
    /\ poll.checks = 3
    /\ poll.sleeps = 2

\* C6: when every status check is fetched, carries no error list and never
\* reports DONE, the poller returns the timeout failure after exactly 100
\* checks; the timeout is told apart from the operation-failed and
\* fetch-failed outcomes.
C6_TimeoutAfterHundredChecks ==
    /\ ErrTimeout \notin {"", ErrOperation, ErrFetch, ErrUnsupportedScope}
    /\ (poll.pc = "loop" /\ Polled) => poll.checks <= 100
    /\ ( /\ poll.pc = "returned" /\ Polled
          /\ poll.answer.fetch = "ok"
          /\ ~poll.answer.HasError
          /\ poll.answer.Status # "DONE" )
        => poll.err = ErrTimeout /\ poll.checks = 100
    /\ (poll.pc = "returned" /\ poll.err = ErrTimeout)
        => /\ poll.checks = 100
           /\ poll.answer.fetch = "ok"
           /\ ~poll.answer.HasError
           /\ poll.answer.Status # "DONE"

C6_Witness ==
    /\ poll.pc = "returned"
    /\ poll.err = ErrTimeout
    /\ poll.checks = 100

\* C7: a fetched operation carrying an error list ends polling with the
\* operation failure on that very check, whatever its status, DONE
\* included; no check or sleep follows it.
C7_ErrorListIsTerminal ==
    /\ (poll.pc = "loop") => ~poll.answer.HasError
    /\ (poll.answer.fetch = "ok" /\ poll.answer.HasError)
        => /\ poll.pc = "returned"
           /\ poll.err = ErrOperation
           /\ poll.checks = poll.i + 1
           /\ poll.sleeps = poll.i

C7_Witness ==
    /\ poll.pc = "returned"
    /\ poll.answer.fetch = "ok"
    /\ poll.answer.HasError
    /\ poll.answer.Status = "DONE"
    /\ poll.err = ErrOperation
    /\ poll.checks = 2

\* exactly one of the two next-hop fields of a route is set
OneNextHop(route) == (route.NextHopIp = "") # (route.NextHopInstance = "")

\* C8: every route insertRoute submits has exactly one next hop, chosen by
\* useIPNextHop: the instance self-link and no IP when it is false, the
\* internal IP of interface 0 and no instance reference when it is true;
\* its destination is the subnet, its network the session network's
\* self-link, its priority 1000.
C8_RouteNextHop ==
    /\ \A e \in provRoutes : OneNextHop(e.route)
    /\ (last.op = "insertRoute" /\ last.request.kind = "route") =>
         LET route == last.request.route
         IN  /\ OneNextHop(route)
             /\ ~api.useIPNextHop =>
                   /\ route.NextHopInstance = api.gceInstance.SelfLink
                   /\ route.NextHopIp = ""
             /\ api.useIPNextHop =>
                   /\ Len(api.gceInstance.NetworkInterfaces) > 0
                   /\ route.NextHopIp =
                          api.gceInstance.NetworkInterfaces[1].NetworkIP
                   /\ route.NextHopInstance = ""
             /\ route.DestRange = last.args[1]
             /\ route.Network = api.gceNetwork.SelfLink
             /\ route.Priority = 1000

C8_Witness ==
    /\ last.op = "insertRoute"
    /\ last.request.kind = "route"
    /\ api.useIPNextHop
    /\ last.request.route.NextHopIp = "10.0.0.5"
    /\ last.err = ""
    /\ Cardinality(provRoutes) = 2

\* C9: insertRoute with useIPNextHop on a cached instance without network
\* interfaces returns an error naming the instance, issues no provider call
\* and leaves the provider and the session as they were.
C9_NoInterfaceNoInsert ==
    [][\A subnet \in Subnets :
          ( /\ api.useIPNextHop
            /\ Len(api.gceInstance.NetworkInterfaces) = 0
            /\ insertRoute(subnet) )
          => /\ last'.err = "error expected instance=" \o
                    api.gceInstance.SelfLink \o " to have network interfaces"
             /\ last'.calls = <<>>
             /\ last'.request = NoRequest
             /\ last'.operation.isNil
             /\ UNCHANGED <<api, constructed, provRoutes, provInstance,
                            provSubnetwork>>]_vars

C9_Witness ==
    /\ last.op = "insertRoute"
    /\ api.useIPNextHop
    /\ Len(api.gceInstance.NetworkInterfaces) = 0
    /\ last.err # ""
    /\ last.calls = <<>>

\* C10: at construction networkProject is the override when it is non-empty
\* and the instance project otherwise, and useIPNextHop is true exactly when
\* the two projects differ; afterwards no handler changes networkProject,
\* instanceProject or useIPNextHop.
C10_IdentityFixedAtConstruction ==
    [][ /\ constructed' \in {"ok", "crashed"} =>
             /\ api'.instanceProject = metaProject
             /\ api'.networkProject =
                    (IF envNetworkProject = "" THEN metaProject
                                              ELSE envNetworkProject)
             /\ api'.useIPNextHop =
                    (api'.instanceProject # api'.networkProject)
        /\ constructed \in {"ok", "crashed"} =>
             /\ api'.networkProject = api.networkProject
             /\ api'.instanceProject = api.instanceProject
             /\ api'.useIPNextHop = api.useIPNextHop ]_vars

C10_Witness ==
    /\ constructed = "ok"
    /\ envNetworkProject = metaProject
    /\ ~api.useIPNextHop
    /\ last.op = "addAliasIPRange"
    /\ last.err = ""

\* no two entries of the sequence carry the same name
UniqueNames(ranges, nameOf(_)) ==
    \A j, k \in 1..Len(ranges) : nameOf(ranges[j]) = nameOf(ranges[k]) => j = k

\* the merge-by-name laws for one application
MergeLaws(ranges, newRange, result, nameOf(_)) ==
    LET names == {nameOf(r) : r \in SeqRange(ranges)}
    IN  /\ nameOf(newRange) \in names => Len(result) = Len(ranges)
        /\ nameOf(newRange) \notin names => Len(result) = Len(ranges) + 1
        /\ ranges = <<>> => Len(result) = 1
        /\ UniqueNames(result, nameOf)
        /\ newRange \in SeqRange(result)
        /\ \A r \in SeqRange(result) :
              nameOf(r) = nameOf(newRange) => r = newRange
        /\ \A r \in SeqRange(ranges) :
              nameOf(r) # nameOf(newRange) => r \in SeqRange(result)

\* C11: merging by name into a sequence with unique names keeps the count
\* when the name exists (the name now carrying the new CIDR), adds one when
\* it is new, gives one entry from the empty sequence; the result has
\* unique names, holds the new entry and every other-named entry unchanged.
C11_MergeByNameLaws ==
    /\ ( /\ merge.applied /\ merge.fn = "secondary"
          /\ UniqueNames(merge.ranges, SecondaryNameOf) )
        => MergeLaws(merge.ranges, merge.newRange, merge.result,
                     SecondaryNameOf)
    /\ ( /\ merge.applied /\ merge.fn = "alias"
          /\ UniqueNames(merge.ranges, AliasNameOf) )
        => MergeLaws(merge.ranges, merge.newRange, merge.result, AliasNameOf)

\* a name that exists was merged into two entries and took the new CIDR
C11_Witness ==
    /\ merge.applied
    /\ merge.fn = "secondary"
    /\ Len(merge.ranges) = 2
    /\ UniqueNames(merge.ranges, SecondaryNameOf)
    /\ merge.newRange.RangeName = merge.ranges[1].RangeName
    /\ merge.newRange.IpCidrRange # merge.ranges[1].IpCidrRange
    /\ Len(merge.result) = 2
    /\ merge.result[2] = merge.newRange

\* the routes of the session's network project whose destination is subnet
RoutesFor(routes, subnet) ==
    {e \in routes : e.route.DestRange = subnet /\ e.project = api.networkProject}

\* the routes whose destination is not subnet
RoutesBeside(routes, subnet) == {e \in routes : e.route.DestRange # subnet}

C13_FetchFailureIsTerminal ==
    /\ ErrFetch \notin {"", ErrOperation, ErrTimeout, ErrUnsupportedScope}
    /\ poll.pc = "loop" => poll.answer.fetch # "failed"
    /\ poll.answer.fetch = "failed"
        => /\ poll.pc = "returned"
           /\ poll.err = ErrFetch
           /\ poll.checks = poll.i + 1
           /\ poll.sleeps = poll.i

C13_Witness ==
    /\ poll.pc = "returned"
    /\ poll.answer.fetch = "failed"
    /\ poll.err = ErrFetch
    /\ poll.checks = 4
    /\ poll.sleeps = 3

\* C17: every call of pollOperationStatus returns, whatever the provider
\* answers, after at most 100 status checks and at most 100 sleeps.
C17_PollTerminates ==
    /\ [](poll.checks <= 100 /\ poll.sleeps <= 100)
    /\ (poll.pc = "loop") ~> (poll.pc = "returned")

C17_Witness ==
    /\ poll.pc = "returned"
    /\ poll.checks = 100
    /\ poll.sleeps = 100

\* C18: pollOperationStatus never returns success for an operation carrying
\* an error list, be it the handle the caller passed (a DONE handle with
\* errors included) or an operation fetched while polling.
C18_NoSuccessWithErrors ==
    (poll.pc = "returned" /\ poll.err = "")
        => /\ ~poll.o.HasError
           /\ ~(poll.answer.fetch = "ok" /\ poll.answer.HasError)

\* no provider call appears twice in the calls of one invocation
NoCallRepeated(calls) == Len(calls) = Cardinality(SeqRange(calls))

\* C14: no mutating request is retried: one handler invocation issues no
\* provider call twice and at most one mutating call; a failure is returned
\* with no operation and nothing applied; the poller changes neither the
\* provider's objects nor the record of the last handler.
C14_NoRetry ==
    [][ /\ Mutations(last') <= 1
        /\ NoCallRepeated(last'.calls)
        /\ last'.err # "" =>
              /\ last'.operation.isNil
              /\ last' # last =>
                    UNCHANGED <<provInstance, provSubnetwork, provRoutes>>
        /\ (provSubnetwork' # provSubnetwork \/ provRoutes' # provRoutes) =>
              Mutations(last') = 1 /\ last'.err = ""
        /\ poll' # poll =>
              UNCHANGED <<provInstance, provSubnetwork, provRoutes, last>>
      ]_vars

\* a patch was refused by the provider and the handler returned the error
C14_Witness ==
    /\ last.op = "addSubnetSecondaryRange"
    /\ last.calls = <<"Subnetworks.Get", "Subnetworks.Patch">>
    /\ last.err = "provider error"
    /\ last.operation.isNil
    /\ Len(provSubnetwork.SecondaryIpRanges) = 1

\* the refresh of this invocation could not fetch the instance
RefreshFailed(call) ==
    /\ call.op = "addAliasIPRange"
    /\ call.calls = <<"Instances.Get">>
    /\ call.err = "provider error"

\* C15: the session object changes only in addAliasIPRange, whose refresh
\* replaces the cached instance by the fetched one as a whole; every other
\* handler and the poller leave all session fields as they were; a refresh
\* whose fetch fails leaves the cache as it was, issues no update and
\* returns the error.
C15_OnlyRefreshWritesSession ==
    [][ constructed = "ok" =>
          /\ api' # api =>
                /\ last'.op = "addAliasIPRange"
                /\ ~RefreshFailed(last')
                /\ api' = [api EXCEPT !.gceInstance = provInstance]
          /\ (last' # last /\ RefreshFailed(last')) =>
                /\ api' = api
                /\ provInstance' = provInstance
                /\ Mutations(last') = 0
          /\ poll' # poll => api' = api
      ]_vars

\* a failed refresh left a cache that no longer matches the provider
C15_Witness ==
    /\ constructed = "ok"
    /\ RefreshFailed(last)
    /\ api.gceInstance # provInstance
    /\ Len(api.gceInstance.NetworkInterfaces) = 1
    /\ Len(provInstance.NetworkInterfaces) = 1

\* result holds the new entry and the entries of ranges under other names
MergedFrom(ranges, newRange, result, nameOf(_)) ==
    SeqRange(result) =
        {r \in SeqRange(ranges) : nameOf(r) # nameOf(newRange)} \cup {newRange}

\* C16: the update addAliasIPRange submits carries the fingerprint and the
\* merged alias ranges of interface 0 of the instance fetched in that very
\* call, never of an earlier cached snapshot; the patch
\* addSubnetSecondaryRange submits carries the fingerprint and the merged
\* ranges of the subnetwork fetched in that call.
C16_RequestFromFreshFetch ==
    [][\A c \in Cidrs, n \in RangeNames :
          /\ ( /\ last'.request.kind = "networkInterfaceUpdate"
                /\ last'.args = <<c, n>>
                /\ addAliasIPRange(c, n) )
              => /\ Len(provInstance.NetworkInterfaces) > 0
                 /\ last'.request.update.Fingerprint =
                        provInstance.NetworkInterfaces[1].Fingerprint
                 /\ MergedFrom(provInstance.NetworkInterfaces[1].AliasIpRanges,
                               [IpCidrRange |-> c, SubnetworkRangeName |-> n],
                               last'.request.update.AliasIpRanges, AliasNameOf)
          /\ ( /\ last'.request.kind = "subnetworkPatch"
                /\ last'.args = <<c, n>>
                /\ addSubnetSecondaryRange(c, n) )
              => /\ last'.request.update.Fingerprint =
                        provSubnetwork.Fingerprint
                 /\ MergedFrom(provSubnetwork.SecondaryIpRanges,
                               [IpCidrRange |-> c, RangeName |-> n],
                               last'.request.update.SecondaryIpRanges,
                               SecondaryNameOf)
      ]_vars

\* a later update carried the fingerprint of the ranges an earlier one left,
\* not the one cached at construction
C16_Witness ==
    /\ last.op = "addAliasIPRange"
    /\ last.request.kind = "networkInterfaceUpdate"
    /\ last.request.update.Fingerprint # FingerprintOf(<<>>)
    /\ Len(last.request.update.AliasIpRanges) = 2
    /\ last.err = ""

\* C19: the cached instance of a constructed session always has a network
\* interface, so no handler ever indexes interface 0 out of range.
C19_SnapshotHasInterface ==
    constructed \in {"ok", "crashed"} =>
        /\ Len(api.gceInstance.NetworkInterfaces) >= 1
        /\ last.err # PanicText


\* session s is between the fetch and the request of handler op
Submitting(s, op) == tasks[s].pc = "fetched" /\ tasks[s].op = op

\* the fingerprint of the object the handler of session s works on
CurrentFingerprint(s) ==
    IF tasks[s].op = "addSubnetSecondaryRange"
    THEN provSubnetwork.Fingerprint
    ELSE provInstance.NetworkInterfaces[1].Fingerprint

\* C20: no update is lost when two sessions interleave their range handlers
\* on the same subnetwork or interface under different range names: a range
\* the provider holds stays as it is unless the session that owns its name
\* has an update accepted in that step, and a session whose fetch is stale
\* when it submits gets an error and changes nothing.
C20_NoLostUpdate ==
    [][ /\ \A r \in SeqRange(provSubnetwork.SecondaryIpRanges) :
              \/ r \in SeqRange(provSubnetwork'.SecondaryIpRanges)
              \/ \E s \in Sessions :
                    /\ Submitting(s, "addSubnetSecondaryRange")
                    /\ tasks'[s].accepted
                    /\ tasks[s].name = r.RangeName
        /\ \A r \in SeqRange(provInstance.NetworkInterfaces[1].AliasIpRanges) :
              \/ r \in SeqRange(provInstance'.NetworkInterfaces[1].AliasIpRanges)
              \/ \E s \in Sessions :
                    /\ Submitting(s, "addAliasIPRange")
                    /\ tasks'[s].accepted
                    /\ tasks[s].name = r.SubnetworkRangeName
        /\ \A s \in Sessions :
              ( /\ tasks[s].pc = "fetched"
                /\ tasks'[s].pc = "idle"
                /\ tasks[s].fingerprint # CurrentFingerprint(s) )
              => /\ tasks'[s].err \in {"conditionNotMet", "provider error"}
                 /\ ~tasks'[s].accepted
                 /\ UNCHANGED <<provSubnetwork, provInstance>>
      ]_vars

\* both sessions fetched the empty subnetwork; the first patch was accepted,
\* the second was refused and the first session's range is still there
C20_Witness ==
    /\ tasks["s1"].op = "addSubnetSecondaryRange"
    /\ tasks["s1"].accepted
    /\ tasks["s2"].op = "addSubnetSecondaryRange"
    /\ tasks["s2"].sent
    /\ tasks["s2"].err = "conditionNotMet"
    /\ provSubnetwork.SecondaryIpRanges =
           <<[IpCidrRange |-> "c1", RangeName |-> "r1"]>>

====
